---- MODULE Spec2Model ----
(***************************************************************************)
(* TOEFL vocabulary trainer (src/main.py): the spaced-repetition scheduler *)
(* (load_data, get_next_word, update_srs), the list codec (parse_list) and *)
(* the multiple-choice generator (build_question_for_word), as a state     *)
(* machine over the Google-Sheet store and the Streamlit session state.    *)
(*                                                                         *)
(* Python values are tagged records: S(s) a str, I(n) an int, NaN the      *)
(* pandas missing value, L(v) a list.  A str that the code only compares   *)
(* for equality is a TLA+ string; next_review, which the code compares     *)
(* with <=, is the sequence of its character codes.                        *)
(***************************************************************************)
EXTENDS Integers, Sequences, FiniteSets, TLC

VARIABLES
    store,            \* worksheet Sheet1 behind conn
    vocab_db,         \* st.session_state.vocab_db
    today,            \* datetime.date.today()
    ticks,            \* days elapsed since the run began
    save_failures,    \* writes to the sheet that have failed so far
    qc_log,           \* worksheet QC_Log behind conn: its rows
    app_mode, session_config, session_stats,
    current_word_id, question_type, quiz_options, correct_answers,
    example_blank_to_show, quiz_answered, selected_option,
    last              \* the last operation: its arguments, result and advisories

srs_vars == <<store, vocab_db, save_failures>>
clock_vars == <<today, ticks>>
quiz_vars == <<current_word_id, question_type, quiz_options, correct_answers,
               example_blank_to_show, quiz_answered, selected_option>>
vars == <<store, vocab_db, today, ticks, save_failures, qc_log, app_mode, session_config,
          session_stats, current_word_id, question_type, quiz_options,
          correct_answers, example_blank_to_show, quiz_answered, selected_option,
          last>>

----------------------------------------------------------------------------
(* Bounds of the model. *)

\* days the clock may advance during a run
MaxTicks == 1
\* update_srs is not called with a wrong answer once mistake_count is here
MaxMistakes == 2
\* answers given during a run
MaxAnswers == 3
\* writes to the sheet that may fail during a run
MaxSaveFailures == 1
\* rows of QC_Log, the seed row included
MaxLogRows == 4

----------------------------------------------------------------------------
(* Python values. *)

S(s) == [t |-> "str", s |-> s]
I(n) == [t |-> "int", n |-> n]
L(v) == [t |-> "list", v |-> v]
NaN == [t |-> "nan"]

IsNaN(x) == x.t = "nan"

Min(a, b) == IF a <= b THEN a ELSE b

RECURSIVE Pow2(_)
Pow2(n) == IF n <= 0 THEN 1 ELSE 2 * Pow2(n - 1)

SeqToSet(s) == {s[i] : i \in 1..Len(s)}

----------------------------------------------------------------------------
(* Dates: datetime.date, str(date) and the comparison of two str. *)

IsLeap(y) == (y % 4 = 0 /\ y % 100 # 0) \/ y % 400 = 0

DaysInMonth(y, m) ==
    IF m = 2 THEN (IF IsLeap(y) THEN 29 ELSE 28)
    ELSE IF m \in {4, 6, 9, 11} THEN 30 ELSE 31

NextDay(d) ==
    IF d.d < DaysInMonth(d.y, d.m) THEN [d EXCEPT !.d = d.d + 1]
    ELSE IF d.m < 12 THEN [y |-> d.y, m |-> d.m + 1, d |-> 1]
    ELSE [y |-> d.y + 1, m |-> 1, d |-> 1]

\* date + datetime.timedelta(days=n), n >= 0: within the month, or on from
\* the first day of the next month
RECURSIVE AddDays(_, _)
AddDays(d, n) ==
    IF d.d + n <= DaysInMonth(d.y, d.m) THEN [d EXCEPT !.d = d.d + n]
    ELSE AddDays(NextDay([d EXCEPT !.d = DaysInMonth(d.y, d.m)]),
                 n - (DaysInMonth(d.y, d.m) - d.d + 1))

Digit(n) == 48 + n
Dash == 45

\* str(date): "%04d-%02d-%02d" as character codes
DateStr(d) ==
    << Digit(d.y \div 1000), Digit((d.y \div 100) % 10), Digit((d.y \div 10) % 10),
       Digit(d.y % 10), Dash, Digit(d.m \div 10), Digit(d.m % 10), Dash,
       Digit(d.d \div 10), Digit(d.d % 10) >>

\* '0000-00-00'
NeverReviewed == <<48, 48, 48, 48, 45, 48, 48, 45, 48, 48>>
\* 'nan' and 'None'
StrNan == <<110, 97, 110>>
StrNone == <<78, 111, 110, 101>>

\* a <= b on Python str: lexicographic on the code points
RECURSIVE StrLE(_, _)
StrLE(a, b) ==
    IF a = <<>> THEN TRUE
    ELSE IF b = <<>> THEN FALSE
    ELSE IF Head(a) < Head(b) THEN TRUE
    ELSE IF Head(a) > Head(b) THEN FALSE
    ELSE StrLE(Tail(a), Tail(b))

----------------------------------------------------------------------------
(* str methods, on the strings that occur in the model's sheets. *)

\* str.lower()
Lower(s) ==
    CASE s = "Word" -> "word"
      [] s = "Box" -> "box"
      [] s = "Verb" -> "verb"
      [] s = " Verb " -> " verb "
      [] s = "NaN" -> "nan"
      [] s = "None" -> "none"
      [] s = "Option A" -> "option a"
      [] s = "They tried to ____ the conditions." -> "they tried to ____ the conditions."
      [] s = "Trees ____ the heat." -> "trees ____ the heat."
      [] s = "The storm began to ____." -> "the storm began to ____."
      [] OTHER -> s

\* str.strip()
Strip(s) ==
    CASE s = " " -> ""
      [] s = " verb " -> "verb"
      [] s = " Verb " -> "Verb"
      [] s = " abate" -> "abate"
      [] s = "ameliorate " -> "ameliorate"
      [] s = "alleviate " -> "alleviate"
      [] s = " They tried to ____ the conditions. " -> "They tried to ____ the conditions."
      [] OTHER -> s

----------------------------------------------------------------------------
(* A pandas DataFrame: its column names and its rows, each row a function  *)
(* from the column names to Python values.                                 *)

DataFrame(cols, rows) == [cols |-> cols, rows |-> rows]

\* df.columns = df.columns.str.lower()
LowerColumns(df) ==
    LET cols == {Lower(c) : c \in df.cols}
        Old(c) == CHOOSE c0 \in df.cols : Lower(c0) = c
    IN  DataFrame(cols, [i \in 1..Len(df.rows) |-> [c \in cols |-> df.rows[i][Old(c)]]])

\* a slip: keep='last'
RECURSIVE DropDuplicateWordsKeepLast(_, _)
DropDuplicateWordsKeepLast(rows, seen) ==
    IF rows = <<>> THEN <<>>
    ELSE IF \E k \in 2..Len(rows) : rows[k]["word"] = Head(rows)["word"]
    THEN DropDuplicateWordsKeepLast(Tail(rows), seen)
    ELSE <<Head(rows)>> \o DropDuplicateWordsKeepLast(Tail(rows), seen)

\* df.drop_duplicates(subset=['word'], keep='first')
RECURSIVE DropDuplicateWords(_, _)
DropDuplicateWords(rows, seen) ==
    IF rows = <<>> THEN <<>>
    ELSE IF Head(rows)["word"] \in seen THEN DropDuplicateWords(Tail(rows), seen)
    ELSE <<Head(rows)>> \o DropDuplicateWords(Tail(rows), seen \cup {Head(rows)["word"]})

\* df[col] = value
SetColumn(df, col, value) ==
    DataFrame(df.cols \cup {col},
              [i \in 1..Len(df.rows) |->
                  [c \in df.cols \cup {col} |-> IF c = col THEN value ELSE df.rows[i][c]]])

\* df[col] = f(df[col])
MapColumn(df, col, F(_)) ==
    DataFrame(df.cols,
              [i \in 1..Len(df.rows) |->
                  [c \in df.cols |-> IF c = col THEN F(df.rows[i][c]) ELSE df.rows[i][c]]])

\* .fillna(0).astype(int) on one cell; a str cell makes astype raise
FillnaInt(x) == IF IsNaN(x) THEN I(0) ELSE x
CanAstypeInt(x) == x.t \in {"int", "nan"}

\* .astype(str).replace(['nan', 'None'], '0000-00-00') on one cell
AstypeStr(x) == IF IsNaN(x) THEN S(StrNan) ELSE x
ReplaceNull(x) == IF x.s \in {StrNan, StrNone} THEN S(NeverReviewed) ELSE x
NormReview(x) == ReplaceNull(AstypeStr(x))

\* the script stopped (st.stop) before a Table existed
NoTable == DataFrame({}, <<>>)

\* if col not in df.columns: df[col] = value
EnsureColumn(df, col, value) == IF col \in df.cols THEN df ELSE SetColumn(df, col, value)

\* the columns load_data adds when the sheet lacks them, with their defaults
AddedColumns(df) ==
    EnsureColumn(
      EnsureColumn(
        EnsureColumn(
          EnsureColumn(
            EnsureColumn(
              EnsureColumn(df, "mistake_count", I(0)),
              "box", I(0)),
            "next_review", S(NeverReviewed)),
          "example_blank", S("")),
        "collocations", S("")),
      "confusables", S(""))

\* the three typed columns after fillna/astype/replace
TypedColumns(df) ==
    MapColumn(MapColumn(MapColumn(df, "mistake_count", FillnaInt), "box", FillnaInt),
              "next_review", NormReview)

\* a str in a numeric column: astype(int) raises
AstypeRaises(df) ==
    \E i \in 1..Len(df.rows) :
        ~CanAstypeInt(df.rows[i]["mistake_count"]) \/ ~CanAstypeInt(df.rows[i]["box"])

\* drop_duplicates when the sheet has a word column
Deduplicated(df) ==
    IF "word" \in df.cols THEN DataFrame(df.cols, DropDuplicateWords(df.rows, {})) ELSE df

\* the result of load_data once the frame df is built from the sheet
LoadResult(sheet, df, needs_initial_save) ==
    IF df.rows = <<>>
    THEN [ok |-> FALSE, df |-> NoTable, store |-> IF needs_initial_save THEN df ELSE sheet]
    ELSE [ok |-> TRUE, df |-> df, store |-> IF needs_initial_save THEN df ELSE sheet]

\* load_data(): [ok, df, store], store being the sheet after the call
load_data(sheet) ==
    LET df == AddedColumns(Deduplicated(LowerColumns(sheet)))
    IN  IF AstypeRaises(df) \/ "id" \notin df.cols
        THEN [ok |-> FALSE, df |-> NoTable, store |-> sheet]
        ELSE LoadResult(sheet, TypedColumns(df), df.cols # {Lower(c) : c \in sheet.cols})

----------------------------------------------------------------------------
(* The scheduler: get_next_word and update_srs. *)

None == [t |-> "none"]

\* config.get(key, default)
ConfigGet(config, key, default) == IF key \in DOMAIN config THEN config[key] ELSE default

\* a slip: the lower end of the difficulty range excluded
LevelMaskExclusive(row, difficulty) ==
    /\ row["level"].t = "int"
    /\ row["level"].n > difficulty[1]
    /\ row["level"].n <= difficulty[2]

\* (df['level'] >= difficulty[0]) & (df['level'] <= difficulty[1]); a NaN compares False
LevelMask(row, difficulty) ==
    /\ row["level"].t = "int"
    /\ row["level"].n >= difficulty[1]
    /\ row["level"].n <= difficulty[2]

\* topic != "All" narrows the mask to df['topic'] == topic
TopicMask(row, topic) == topic # "All" => row["topic"] = S(topic)

\* a slip: every item in box 0 taken for a mistake
MistakeMaskBoxOnly(row) == row["box"].n = 0

\* (df['box'] == 0) & (df['mistake_count'] > 0)
MistakeMask(row) == row["box"].n = 0 /\ row["mistake_count"].n > 0

\* a slip: < for <=
DueMaskStrict(row, today_str) ==
    StrLE(row["next_review"].s, today_str) /\ row["next_review"].s # today_str

\* df['next_review'] <= today_str
DueMask(row, today_str) == StrLE(row["next_review"].s, today_str)

\* the mode's logic_mask
LogicMask(row, mode, today_str) ==
    IF mode = "Review Mistakes Only" THEN MistakeMask(row) ELSE DueMask(row, today_str)

\* the indices of df[mask & logic_mask]
Candidates(df, config, day) ==
    LET difficulty == ConfigGet(config, "difficulty", <<1, 3>>)
        topic == ConfigGet(config, "topic", "All")
        mode == ConfigGet(config, "mode", "Standard Study (SRS)")
    IN  {i \in 1..Len(df.rows) :
            /\ LevelMask(df.rows[i], difficulty)
            /\ TopicMask(df.rows[i], topic)
            /\ LogicMask(df.rows[i], mode, DateStr(day))}

\* get_next_word(): the values candidates.sample(1) can give, and whether the
\* "No historical mistakes found!" toast was raised
get_next_word(df, config, day) ==
    LET candidates == Candidates(df, config, day)
        mode == ConfigGet(config, "mode", "Standard Study (SRS)")
    IN  [rets |-> IF candidates = {} THEN {None} ELSE {df.rows[i]["id"] : i \in candidates},
         toast |-> mode = "Review Mistakes Only" /\ candidates = {}]

\* df[df['id'] == word_id].index.tolist()
IdxList(df, word_id) == {i \in 1..Len(df.rows) : df.rows[i]["id"] = word_id}

FirstIdx(idx_list) == CHOOSE i \in idx_list : \A j \in idx_list : i <= j

\* slips: the box not capped at 5; a correct answer forgiving a mistake; the
\* interval 2 * new_box for 2 ** new_box
NewBoxUncapped(current_box, is_correct) == IF is_correct THEN current_box + 1 ELSE 0
NewMistakesForgiving(current_mistakes, is_correct) ==
    IF is_correct THEN (IF current_mistakes > 0 THEN current_mistakes - 1 ELSE 0)
    ELSE current_mistakes + 1
DaysToAddLinear(new_box, is_correct) == IF is_correct THEN 2 * new_box ELSE 0

\* the box, mistake_count and number of days update_srs computes
NewBox(current_box, is_correct) == IF is_correct THEN Min(current_box + 1, 5) ELSE 0
NewMistakes(current_mistakes, is_correct) ==
    IF is_correct THEN current_mistakes ELSE current_mistakes + 1
DaysToAdd(new_box, is_correct) ==
    IF is_correct THEN (IF new_box < 0 THEN 0 ELSE Pow2(new_box)) ELSE 0

\* a slip: a wrong answer not counted in the total
NewStatsWrongUncounted(stats, is_correct) ==
    [correct |-> stats.correct + (IF is_correct THEN 1 ELSE 0),
     wrong |-> stats.wrong + (IF is_correct THEN 0 ELSE 1),
     total |-> stats.total + (IF is_correct THEN 1 ELSE 0)]

\* session_stats after one answer
NewStats(stats, is_correct) ==
    [correct |-> stats.correct + (IF is_correct THEN 1 ELSE 0),
     wrong |-> stats.wrong + (IF is_correct THEN 0 ELSE 1),
     total |-> stats.total + 1]

\* a slip: the new box written into the whole column
WriteSrsWholeColumn(df, idx, is_correct, day) ==
    LET row == df.rows[idx]
        new_box == NewBox(row["box"].n, is_correct)
        next_date == AddDays(day, DaysToAdd(new_box, is_correct))
    IN  [df EXCEPT !.rows =
            [i \in 1..Len(df.rows) |->
                [c \in df.cols |->
                    CASE c = "box" -> I(new_box)
                      [] c = "next_review" /\ i = idx -> S(DateStr(next_date))
                      [] c = "mistake_count" /\ i = idx ->
                            I(NewMistakes(row["mistake_count"].n, is_correct))
                      [] OTHER -> df.rows[i][c]]]]

\* the Table after update_srs wrote the three cells of row idx
WriteSrs(df, idx, is_correct, day) ==
    LET row == df.rows[idx]
        new_box == NewBox(row["box"].n, is_correct)
        next_date == AddDays(day, DaysToAdd(new_box, is_correct))
    IN  [df EXCEPT !.rows[idx] =
            [c \in df.cols |->
                CASE c = "box" -> I(new_box)
                  [] c = "next_review" -> S(DateStr(next_date))
                  [] c = "mistake_count" -> I(NewMistakes(row["mistake_count"].n, is_correct))
                  [] OTHER -> row[c]]]

\* a slip: the save writes the answered row alone into the sheet
update_srs_patch(word_id, is_correct, save_ok) ==
    LET idx_list == IdxList(vocab_db, word_id)
    IN  IF idx_list = {}
        THEN UNCHANGED <<vocab_db, session_stats, store, save_failures>>
        ELSE /\ session_stats' = NewStats(session_stats, is_correct)
             /\ vocab_db' = WriteSrs(vocab_db, FirstIdx(idx_list), is_correct, today)
             /\ store' = IF save_ok
                         THEN [store EXCEPT !.rows[FirstIdx(idx_list)] =
                                  vocab_db'.rows[FirstIdx(idx_list)]]
                         ELSE store
             /\ save_failures' = IF save_ok THEN save_failures ELSE save_failures + 1

\* a slip: a failed save undoes the answer
update_srs_rollback(word_id, is_correct, save_ok) ==
    LET idx_list == IdxList(vocab_db, word_id)
    IN  IF idx_list = {}
        THEN UNCHANGED <<vocab_db, session_stats, store, save_failures>>
        ELSE IF save_ok
        THEN /\ session_stats' = NewStats(session_stats, is_correct)
             /\ vocab_db' = WriteSrs(vocab_db, FirstIdx(idx_list), is_correct, today)
             /\ store' = vocab_db'
             /\ UNCHANGED save_failures
        ELSE /\ save_failures' = save_failures + 1
             /\ UNCHANGED <<vocab_db, session_stats, store>>

\* update_srs(word_id, is_correct); save_ok: conn.update did not raise
update_srs(word_id, is_correct, save_ok) ==
    LET idx_list == IdxList(vocab_db, word_id)
    IN  IF idx_list = {}
        THEN UNCHANGED <<vocab_db, session_stats, store, save_failures>>
        ELSE /\ session_stats' = NewStats(session_stats, is_correct)
             /\ vocab_db' = WriteSrs(vocab_db, FirstIdx(idx_list), is_correct, today)
             /\ store' = IF save_ok THEN vocab_db' ELSE store
             /\ save_failures' = IF save_ok THEN save_failures ELSE save_failures + 1

----------------------------------------------------------------------------
(* The list codec: parse_list. *)

\* str(n) for the ints that occur in the sheets' list cells
IntStr(n) == CASE n = 7 -> "7" [] OTHER -> "0"

\* str(x)
StrOf(x) ==
    CASE x.t = "str" -> x.s
      [] x.t = "int" -> IntStr(x.n)
      [] x.t = "nan" -> "nan"
      [] OTHER -> "None"

\* ast.literal_eval(x) on the texts that occur in the sheets: the value, or
\* ok = FALSE where it raises (a bare word is not a literal)
LiteralEval(x) ==
    CASE x = "['improve', 'better']" -> [ok |-> TRUE, v |-> L(<<S("improve"), S("better")>>)]
      [] x = "['lessen', 'reduce', 'ease']" ->
            [ok |-> TRUE, v |-> L(<<S("lessen"), S("reduce"), S("ease")>>)]
      [] x = "['lessen']" -> [ok |-> TRUE, v |-> L(<<S("lessen")>>)]
      [] x = "['improve', 'lessen']" -> [ok |-> TRUE, v |-> L(<<S("improve"), S("lessen")>>)]
      [] x = "['soothe', 'calm']" -> [ok |-> TRUE, v |-> L(<<S("soothe"), S("calm")>>)]
      [] x = "['relieve', 'allay', '']" ->
            [ok |-> TRUE, v |-> L(<<S("relieve"), S("allay"), S("")>>)]
      [] x = "['Option A']" -> [ok |-> TRUE, v |-> L(<<S("Option A")>>)]
      [] x = "['Option A', 7]" -> [ok |-> TRUE, v |-> L(<<S("Option A"), I(7)>>)]
      [] x = "['Option 3']" -> [ok |-> TRUE, v |-> L(<<S("Option 3")>>)]
      [] x = "['alleviate', 'mitigate', 'ameliorate', 'abate', 'allay']" ->
            [ok |-> TRUE, v |-> L(<<S("alleviate"), S("mitigate"), S("ameliorate"),
                                    S("abate"), S("allay")>>)]
      [] x = "['alleviate', 'alleviate']" ->
            [ok |-> TRUE, v |-> L(<<S("alleviate"), S("alleviate")>>)]
      [] x = "[]" -> [ok |-> TRUE, v |-> L(<<>>)]
      [] x = "7" -> [ok |-> TRUE, v |-> I(7)]
      [] x = "'mend'" -> [ok |-> TRUE, v |-> S("mend")]
      [] OTHER -> [ok |-> FALSE]

\* a slip: a text that is no literal gives the empty list
parse_list_drops(x) ==
    IF x.t = "list" THEN x.v
    ELSE IF x.t = "str" /\ Strip(x.s) # ""
    THEN LET r == LiteralEval(x.s)
         IN  IF ~r.ok THEN <<>>
             ELSE IF r.v.t = "list" THEN r.v.v
             ELSE <<S(StrOf(r.v))>>
    ELSE <<>>

\* parse_list(x): a sequence of Python values
parse_list(x) ==
    IF x.t = "list" THEN x.v
    ELSE IF x.t = "str" /\ Strip(x.s) # ""
    THEN LET r == LiteralEval(x.s)
         IN  IF ~r.ok THEN <<x>>
             ELSE IF r.v.t = "list" THEN r.v.v
             ELSE <<S(StrOf(r.v))>>
    ELSE <<>>

\* [w for w in xs if isinstance(w, str) and w.strip() != ""], as plain strings
IsNonEmptyStr(w) == w.t = "str" /\ Strip(w.s) # ""
NonEmptyStrs(xs) ==
    LET kept == SelectSeq(xs, IsNonEmptyStr)
    IN  [i \in 1..Len(kept) |-> kept[i].s]

----------------------------------------------------------------------------
(* The question generator: build_question_for_word. *)

\* row.get(col, '')
RowGet(row, col) == IF col \in DOMAIN row THEN row[col] ELSE S("")

\* some enumeration of a finite set
RECURSIVE SetToSeq(_)
SetToSeq(T) ==
    IF T = {} THEN <<>>
    ELSE LET x == CHOOSE y \in T : TRUE IN <<x>> \o SetToSeq(T \ {x})

\* random.sample(pool, k) up to order
Samples(pool, k) == {T \in SUBSET pool : Cardinality(T) = k}

\* what random.shuffle(xs) can leave
Shuffles(xs) ==
    {[i \in 1..Len(xs) |-> xs[p[i]]] : p \in Permutations(1..Len(xs))}

\* a slip: the confusables stop at three options
RECURSIVE AppendNewShort(_, _)
AppendNewShort(options, xs) ==
    IF xs = <<>> \/ Len(options) >= 3 THEN options
    ELSE IF \E i \in 1..Len(options) : options[i] = Head(xs)
    THEN AppendNewShort(options, Tail(xs))
    ELSE AppendNewShort(Append(options, Head(xs)), Tail(xs))

\* for x in xs: stop at 4 options, append x unless it is there
RECURSIVE AppendNew(_, _)
AppendNew(options, xs) ==
    IF xs = <<>> \/ Len(options) >= 4 THEN options
    ELSE IF \E i \in 1..Len(options) : options[i] = Head(xs)
    THEN AppendNew(options, Tail(xs))
    ELSE AppendNew(Append(options, Head(xs)), Tail(xs))

\* f"Option {n}"
OptionN(n) ==
    CASE n = 0 -> "Option 0" [] n = 1 -> "Option 1" [] n = 2 -> "Option 2" [] OTHER -> "Option 3"

\* while len(options) < 4: options.append(f"Option {len(options)}")
RECURSIVE PadOptions(_)
PadOptions(options) ==
    IF Len(options) >= 4 THEN options
    ELSE PadOptions(Append(options, OptionN(Len(options))))

Defaults == <<"Option A", "Option B", "Option C">>

\* df_pool['pos_norm'] of one row
PosNorm(row) ==
    Lower(Strip(StrOf(IF IsNaN(row["pos"]) THEN S("") ELSE row["pos"])))

\* the rows of the pool other than the target
Others(df_all, new_id) == {i \in 1..Len(df_all.rows) : df_all.rows[i]["id"].n # new_id}

\* a slip: the wrong options drawn from every other item, whatever its pos
SynonymCandidatesAnyPos(df_all, new_id, target_pos) == Others(df_all, new_id)

\* candidate_df of the synonym question
SynonymCandidates(df_all, new_id, target_pos) ==
    LET same_pos == {i \in Others(df_all, new_id) : PosNorm(df_all.rows[i]) = target_pos}
    IN  IF target_pos # "" /\ target_pos # "nan" /\ same_pos # {}
        THEN same_pos
        ELSE Others(df_all, new_id)

\* wrong_pool, deduplicated and without the correct answers
WrongPool(df_all, candidate_df, correct_set) ==
    UNION {SeqToSet(NonEmptyStrs(parse_list(RowGet(df_all.rows[i], "synonyms")))) :
              i \in candidate_df} \ correct_set

\* wrong_options: a sample of three, or the whole pool and then the defaults
WrongOptions(wrong_pool) ==
    IF Cardinality(wrong_pool) >= 3
    THEN {SetToSeq(T) : T \in Samples(wrong_pool, 3)}
    ELSE {SetToSeq(wrong_pool) \o SubSeq(Defaults, 1, 3 - Cardinality(wrong_pool))}

\* a slip: the displayed option normalised, the answer set not
CorrectOptionsLowered(correct_set) == {Lower(c) : c \in correct_set}

\* the correct option a synonym question displays
CorrectOptions(correct_set) == correct_set

\* [A] the synonym questions of a target with the synonyms given
SynonymQuestions(df_all, new_id, target_pos, synonyms) ==
    LET correct_set == SeqToSet(synonyms)
        wrong_pool == WrongPool(df_all, SynonymCandidates(df_all, new_id, target_pos),
                                correct_set)
    IN  UNION { UNION { { [qtype |-> "synonym", options |-> options,
                           correct_set |-> correct_set, example_blank |-> "",
                           pre |-> <<correct_option>> \o wrong_options]
                          : options \in Shuffles(<<correct_option>> \o wrong_options) }
                        : wrong_options \in WrongOptions(wrong_pool) }
                : correct_option \in CorrectOptions(correct_set) }

\* cand of the blank question: the other rows of the target's topic, narrowed
\* to its part of speech when some row has it
FillerCandidates(df_all, new_id, target_topic, target_pos) ==
    LET cand == IF target_topic # ""
                THEN {i \in Others(df_all, new_id) : df_all.rows[i]["topic"] = S(target_topic)}
                ELSE Others(df_all, new_id)
        cand_pos == {i \in cand : PosNorm(df_all.rows[i]) = target_pos}
    IN  IF target_pos # "" /\ target_pos # "nan" /\ cand_pos # {} THEN cand_pos ELSE cand

\* filler: the words of cand, without NaN, the target word and blank strings
Filler(df_all, cand, word_text) ==
    {w \in {StrOf(df_all.rows[i]["word"]) : i \in {j \in cand : ~IsNaN(df_all.rows[j]["word"])}} :
        w # word_text /\ Strip(w) # ""}

\* the confusables of the target that the blank question may show
Confusables(word_row, word_text) ==
    LET strs == NonEmptyStrs(parse_list(RowGet(word_row, "confusables")))
        NotTarget(c) == c # word_text
    IN  SelectSeq(strs, NotTarget)

\* a slip: the options of a blank question not seeded with the word
BlankSeedEmpty(word_text) == <<>>

\* the seed of a blank question's options
BlankSeed(word_text) == <<word_text>>

\* [B] the blank questions of a target
BlankQuestions(df_all, word_row, new_id, word_text, target_topic, target_pos, example_blank) ==
    LET seeded == AppendNew(BlankSeed(word_text), Confusables(word_row, word_text))
        filler == Filler(df_all, FillerCandidates(df_all, new_id, target_topic, target_pos),
                         word_text) \ SeqToSet(seeded)
        need == Min(4 - Len(seeded), Cardinality(filler))
        filled == IF Len(seeded) < 4
                  THEN {seeded \o SetToSeq(T) : T \in Samples(filler, need)}
                  ELSE {seeded}
    IN  UNION { { [qtype |-> "blank", options |-> options,
                   correct_set |-> {word_text}, example_blank |-> example_blank,
                   pre |-> PadOptions(f)]
                  : options \in Shuffles(PadOptions(f)) }
                : f \in filled }

\* a slip: no text taken for a stem
CanBlankNever(example_blank) == FALSE

\* a slip: every non-empty text taken for a stem
CanBlankNonEmpty(example_blank) == example_blank # ""

\* can_blank: the stripped example_blank is a stem
CanBlank(example_blank) == example_blank # "" /\ Lower(example_blank) \notin {"nan", "none"}

\* build_question_for_word(word_row, df_all): every question the random
\* draws can give, with the options before the final shuffle as pre
build_question_for_word(word_row, df_all) ==
    LET new_id == word_row["id"].n
        word_text == Strip(StrOf(RowGet(word_row, "word")))
        target_pos == Lower(Strip(StrOf(RowGet(word_row, "pos"))))
        target_topic == Strip(StrOf(RowGet(word_row, "topic")))
        example_blank == Strip(StrOf(RowGet(word_row, "example_blank")))
        can_blank == CanBlank(example_blank)
        synonyms == NonEmptyStrs(parse_list(RowGet(word_row, "synonyms")))
        blank == BlankQuestions(df_all, word_row, new_id, word_text, target_topic,
                                target_pos, example_blank)
        synonym == IF synonyms = <<>>
                   THEN (IF can_blank THEN blank
                         ELSE SynonymQuestions(df_all, new_id, target_pos, <<word_text>>))
                   ELSE SynonymQuestions(df_all, new_id, target_pos, synonyms)
        Drawn(qtype) == IF qtype = "blank" /\ can_blank THEN blank ELSE synonym
    IN  Drawn("synonym") \cup Drawn("blank")

----------------------------------------------------------------------------
(* The sheets the runs start from. *)

TextCols == {"id", "word", "definition", "example", "synonyms", "topic", "level", "pos",
             "example_blank", "collocations", "confusables"}
SrsCols == {"box", "next_review", "mistake_count"}

\* the first day of a run: 2024-12-30, so that two-day intervals cross a year
Day0 == [y |-> 2024, m |-> 12, d |-> 30]

TextRow(id, word, level, topic, pos, synonyms, confusables, example_blank) ==
    [id |-> I(id), word |-> S(word), definition |-> S("def"), example |-> S("ex"),
     synonyms |-> synonyms, topic |-> S(topic), level |-> I(level), pos |-> pos,
     example_blank |-> example_blank, collocations |-> S(""), confusables |-> confusables]

Srs(box, mistake_count, next_review) ==
    [box |-> box, mistake_count |-> mistake_count, next_review |-> next_review]

\* what the three scheduling cells of a stored row can hold
SrsProfiles ==
    { Srs(NaN, NaN, NaN),
      Srs(I(0), I(1), S(DateStr(Day0))),
      Srs(I(4), I(0), S(DateStr(AddDays(Day0, 1)))),
      Srs(I(6), I(0), S(<<50, 48, 50, 52, 45, 48, 57, 45, 49, 53>>)),
      Srs(I(-1), I(1), S(StrNone)) }

SchedRow1 == TextRow(1, "ameliorate", 1, "Science", S("verb"),
                     S("['improve', 'better']"), S(""), S(""))
SchedRow2 == TextRow(2, "mitigate", 2, "History", S("verb"),
                     S("['lessen']"), S(""), S(""))

Restrict(f, cols) == [c \in cols |-> f[c]]

\* the second row is a new word or one missed today
SrsProfiles2 == { Srs(NaN, NaN, NaN), Srs(I(0), I(1), S(DateStr(Day0))) }

SchedSheets ==
    { DataFrame(TextCols \cup SrsCols, <<SchedRow1 @@ p1, SchedRow2 @@ p2>>) :
        p1 \in SrsProfiles, p2 \in SrsProfiles2 }
    \cup { DataFrame(TextCols, <<SchedRow1, SchedRow2>>),
           DataFrame(TextCols \ {"id"}, <<Restrict(SchedRow1, TextCols \ {"id"})>>),
           DataFrame(TextCols \cup SrsCols, <<>>),
           DataFrame(TextCols \cup SrsCols, <<SchedRow1 @@ Srs(S("two"), I(0), NaN)>>) }

\* rows for the generator: sparse, malformed and placeholder-like cells
NewSrs == Srs(NaN, NaN, NaN)

GenRows1 ==
    { TextRow(1, "ameliorate", 1, "Science", S("verb"), S("['improve', 'better']"),
              S("['alleviate', 'mitigate', 'ameliorate', 'abate', 'allay']"),
              S("They tried to ____ the conditions.")),
      TextRow(1, "ameliorate", 1, "Science", S("verb"), S(""), NaN, S("")),
      TextRow(1, "ameliorate ", 1, "Science", S(" Verb "), NaN, S("['Option 3']"),
              S("They tried to ____ the conditions.")),
      TextRow(1, "ameliorate", 1, "Science", NaN, S("improve, better"), S(""), S("nan")),
      TextRow(1, "ameliorate", 1, "History", S("verb"), S("['Option A', 7]"),
              S("['alleviate', 'alleviate']"), S(" They tried to ____ the conditions. ")) }

GenRows2 ==
    { TextRow(2, "mitigate", 2, "Science", S("verb"), S("['lessen', 'reduce', 'ease']"),
              S("abate"), S("Trees ____ the heat.")),
      TextRow(2, "mitigate", 2, "History", S("Verb"), S("['Option A']"), S(""), NaN),
      TextRow(2, "Option 2", 2, "Science", S("noun"), S("['improve', 'lessen']"),
              S("7"), S("None")) }

GenRows3 ==
    { TextRow(3, "abate", 3, "History", S("noun"), S("['soothe', 'calm']"), S("[]"), S("")),
      TextRow(3, " abate", 3, "Science", S("verb"), S("'mend'"), S("['alleviate', 'alleviate']"),
              S("The storm began to ____.")) }

GenRow4 == TextRow(4, "alleviate", 1, "Science", S("verb"), S("['relieve', 'allay', '']"),
                   S(" "), S(""))

\* a fourth item with nothing to ask about but its padded word
GenRow4Bare == TextRow(4, "alleviate ", 1, "Science", S("verb"), S("[]"), NaN, NaN)

GenSheets ==
    { DataFrame(TextCols \cup SrsCols, <<r1 @@ NewSrs, r2 @@ NewSrs, r3 @@ NewSrs>> \o tail) :
        r1 \in GenRows1, r2 \in GenRows2, r3 \in GenRows3,
        tail \in {<<>>, <<GenRow4 @@ NewSrs>>, <<GenRow4Bare @@ NewSrs>>} }

\* sheets for load_data: repeated words, a capitalised heading, columns missing
LoadRow3 == TextRow(3, "ameliorate", 3, "History", S("noun"), S("['lessen']"), S(""), S(""))
LoadRow4 == TextRow(4, "mitigate", 1, "Science", S("verb"), S(""), S(""), S(""))

\* the row under the heading 'Word' for 'word'
Capitalised(row) ==
    [c \in (DOMAIN row \ {"word"}) \cup {"Word"} |->
        IF c = "Word" THEN row["word"] ELSE row[c]]

NoWord(row) == [row EXCEPT !["word"] = NaN]

SparseCols == {"id", "word", "example", "synonyms", "topic", "level"}

LoadSheets ==
    { DataFrame(TextCols \cup SrsCols,
                <<SchedRow1 @@ NewSrs, SchedRow2 @@ NewSrs,
                  LoadRow3 @@ Srs(I(2), I(0), S(DateStr(Day0))), LoadRow4 @@ NewSrs>>),
      DataFrame((TextCols \ {"word"}) \cup {"Word"} \cup SrsCols,
                <<Capitalised(SchedRow2 @@ NewSrs), Capitalised(SchedRow1 @@ NewSrs),
                  Capitalised(LoadRow4 @@ Srs(I(0), I(1), S(DateStr(Day0))))>>),
      DataFrame(SparseCols, <<Restrict(SchedRow1, SparseCols), Restrict(SchedRow2, SparseCols)>>),
      DataFrame((TextCols \ {"word"}) \cup SrsCols,
                <<Restrict(SchedRow1 @@ NewSrs, (TextCols \ {"word"}) \cup SrsCols),
                  Restrict(LoadRow3 @@ NewSrs, (TextCols \ {"word"}) \cup SrsCols)>>),
      DataFrame(TextCols \cup SrsCols,
                <<NoWord(SchedRow1 @@ NewSrs), SchedRow2 @@ NewSrs, NoWord(LoadRow3 @@ NewSrs)>>),
      DataFrame(TextCols \cup SrsCols,
                <<SchedRow1 @@ Srs(I(0), I(1), S(DateStr(Day0))), SchedRow2 @@ NewSrs>>) }

----------------------------------------------------------------------------
(* The session state and the handlers. *)

ZeroStats == [correct |-> 0, wrong |-> 0, total |-> 0]

\* script start on a fresh session: load_data() and the session_state defaults
Startup(sheet) ==
    LET r == load_data(sheet)
    IN  /\ store = r.store
        /\ vocab_db = r.df
        /\ app_mode = IF r.ok THEN "setup" ELSE "stopped"
        /\ session_config = <<>>
        /\ session_stats = ZeroStats
        /\ current_word_id = None
        /\ question_type = None
        /\ quiz_options = <<>>
        /\ correct_answers = {}
        /\ example_blank_to_show = ""
        /\ quiz_answered = FALSE
        /\ selected_option = None
        /\ save_failures = 0
        /\ qc_log = <<>>
        /\ today = Day0
        /\ ticks = 0
        /\ last = [op |-> "startup", sheet |-> sheet]

Topics == {"All", "Science"}
Modes == {"Standard Study (SRS)", "Review Mistakes Only"}
Goals == {5}
Difficulties == {<<1, 3>>, <<2, 3>>}

Configs ==
    { [topic |-> t, goal |-> g, difficulty |-> d, mode |-> m] :
        t \in Topics, g \in Goals, d \in Difficulties, m \in Modes }

\* a slip: the counters of the earlier session kept
SubmitSetupKeepsStats(config) ==
    /\ app_mode = "setup"
    /\ session_config' = config
    /\ app_mode' = "quiz"
    /\ last' = [op |-> "submit", old_stats |-> session_stats]
    /\ UNCHANGED <<srs_vars, clock_vars, qc_log, quiz_vars, session_stats>>

\* the setup form is submitted
SubmitSetup(config) ==
    /\ app_mode = "setup"
    /\ session_config' = config
    /\ session_stats' = ZeroStats
    /\ app_mode' = "quiz"
    /\ last' = [op |-> "submit", old_stats |-> session_stats]
    /\ UNCHANGED <<srs_vars, clock_vars, qc_log, quiz_vars>>

\* a slip: the session closed one answer short of the goal
GoalReachedEarly ==
    /\ app_mode = "quiz"
    /\ session_stats.total >= session_config["goal"] - 1
    /\ app_mode' = "summary"
    /\ last' = [op |-> "goal_reached"]
    /\ UNCHANGED <<srs_vars, clock_vars, qc_log, quiz_vars, session_config, session_stats>>

\* a slip: the quiz screen without the check of the goal
GoalNeverReached == FALSE /\ UNCHANGED vars

\* the quiz screen finds the goal reached
GoalReached ==
    /\ app_mode = "quiz"
    /\ session_stats.total >= session_config["goal"]
    /\ app_mode' = "summary"
    /\ last' = [op |-> "goal_reached"]
    /\ UNCHANGED <<srs_vars, clock_vars, qc_log, quiz_vars, session_config, session_stats>>

\* "Back to Home" on the summary screen
BackToHome ==
    /\ app_mode = "summary"
    /\ app_mode' = "setup"
    /\ session_stats' = ZeroStats
    /\ last' = [op |-> "back_to_home"]
    /\ UNCHANGED <<srs_vars, clock_vars, qc_log, quiz_vars, session_config>>

\* midnight passes
Tick ==
    /\ ticks < MaxTicks
    /\ today' = NextDay(today)
    /\ ticks' = ticks + 1
    /\ last' = [op |-> "tick"]
    /\ UNCHANGED <<srs_vars, qc_log, quiz_vars, app_mode, session_config, session_stats>>

\* a call of get_next_word() from the quiz screen
GetNextWord ==
    /\ app_mode = "quiz"
    /\ session_stats.total < session_config["goal"]
    /\ LET r == get_next_word(vocab_db, session_config, today)
       IN  \E ret \in r.rets :
              last' = [op |-> "get_next_word", ret |-> ret, toast |-> r.toast]
    /\ UNCHANGED <<srs_vars, clock_vars, qc_log, quiz_vars, app_mode, session_config, session_stats>>

\* the rows of the Table whose box or mistake_count the sheet does not hold yet
Unsaved ==
    {i \in 1..Len(vocab_db.rows) :
        /\ i \in 1..Len(store.rows)
        /\ {"id", "box", "mistake_count"} \subseteq store.cols
        /\ store.rows[i]["id"] = vocab_db.rows[i]["id"]
        /\ store.rows[i]["box"].t = "int" /\ store.rows[i]["mistake_count"].t = "int"
        /\ \/ store.rows[i]["box"] # vocab_db.rows[i]["box"]
           \/ store.rows[i]["mistake_count"] # vocab_db.rows[i]["mistake_count"]}

\* a call of update_srs(word_id, is_correct) from the quiz screen
UpdateSrs(word_id, is_correct, save_ok) ==
    /\ app_mode = "quiz"
    /\ session_stats.total < session_config["goal"]
    /\ session_stats.total < MaxAnswers
    /\ save_ok \/ save_failures < MaxSaveFailures
    /\ \A i \in IdxList(vocab_db, word_id) :
          is_correct \/ vocab_db.rows[i]["mistake_count"].n < MaxMistakes
    /\ update_srs(word_id, is_correct, save_ok)
    /\ last' = [op |-> "update_srs", word_id |-> word_id, is_correct |-> is_correct,
                save_ok |-> save_ok, unsaved |-> Unsaved,
                old |-> IF IdxList(vocab_db, word_id) = {} THEN None
                        ELSE vocab_db.rows[FirstIdx(IdxList(vocab_db, word_id))]]
    /\ UNCHANGED <<clock_vars, qc_log, quiz_vars, app_mode, session_config>>

\* the rows of the Table that hold progress: a box, a mistake or a review date
Progress ==
    {i \in 1..Len(vocab_db.rows) :
        \/ vocab_db.rows[i]["box"] # I(0)
        \/ vocab_db.rows[i]["mistake_count"] # I(0)
        \/ vocab_db.rows[i]["next_review"] # S(NeverReviewed)}

\* a slip: the reset that leaves the mistakes on record
ResetKeepsMistakes(save_ok) ==
    /\ app_mode # "stopped"
    /\ save_ok \/ save_failures < MaxSaveFailures
    /\ IF save_ok
       THEN LET df_reset == SetColumn(SetColumn(vocab_db, "box", I(0)),
                                      "next_review", S(NeverReviewed))
                r == load_data(df_reset)
            IN  /\ store' = r.store
                /\ vocab_db' = r.df
                /\ app_mode' = IF r.ok THEN "setup" ELSE "stopped"
                /\ session_config' = <<>>
                /\ session_stats' = ZeroStats
                /\ current_word_id' = None
                /\ question_type' = None
                /\ quiz_options' = <<>>
                /\ correct_answers' = {}
                /\ example_blank_to_show' = ""
                /\ quiz_answered' = FALSE
                /\ selected_option' = None
                /\ last' = [op |-> "reset", progress |-> Progress]
                /\ UNCHANGED save_failures
       ELSE /\ save_failures' = save_failures + 1
            /\ last' = [op |-> "reset_failed"]
            /\ UNCHANGED <<store, vocab_db, app_mode, session_config, session_stats, quiz_vars>>
    /\ UNCHANGED <<clock_vars, qc_log, qc_log>>

\* "Reset All Progress": the sheet is overwritten, the session cleared and the
\* script rerun from load_data; when conn.update raises nothing is changed
ResetAllProgress(save_ok) ==
    /\ app_mode # "stopped"
    /\ save_ok \/ save_failures < MaxSaveFailures
    /\ IF save_ok
       THEN LET df_reset == SetColumn(SetColumn(SetColumn(vocab_db, "box", I(0)),
                                                "next_review", S(NeverReviewed)),
                                      "mistake_count", I(0))
                r == load_data(df_reset)
            IN  /\ store' = r.store
                /\ vocab_db' = r.df
                /\ app_mode' = IF r.ok THEN "setup" ELSE "stopped"
                /\ session_config' = <<>>
                /\ session_stats' = ZeroStats
                /\ current_word_id' = None
                /\ question_type' = None
                /\ quiz_options' = <<>>
                /\ correct_answers' = {}
                /\ example_blank_to_show' = ""
                /\ quiz_answered' = FALSE
                /\ selected_option' = None
                /\ last' = [op |-> "reset", progress |-> Progress]
                /\ UNCHANGED save_failures
       ELSE /\ save_failures' = save_failures + 1
            /\ last' = [op |-> "reset_failed"]
            /\ UNCHANGED <<store, vocab_db, app_mode, session_config, session_stats, quiz_vars>>
    /\ UNCHANGED <<clock_vars, qc_log, qc_log>>

\* the ids update_srs is called with: those of the Table and one it does not hold
CallIds == {I(1), I(2), I(9)}

StandardConfig ==
    [topic |-> "All", goal |-> 5, difficulty |-> <<1, 3>>, mode |-> "Standard Study (SRS)"]

InitSched == \E sheet \in SchedSheets : Startup(sheet)

\* load_data, update_srs on any id, the clock and the reset
NextSched ==
    \/ SubmitSetup(StandardConfig)
    \/ Tick
    \/ \E word_id \in CallIds, is_correct \in BOOLEAN, save_ok \in BOOLEAN :
          UpdateSrs(word_id, is_correct, save_ok)
    \/ \E save_ok \in BOOLEAN : ResetAllProgress(save_ok)

SpecSched == InitSched /\ [][NextSched]_vars

InitLoad == \E sheet \in LoadSheets : Startup(sheet)

\* the same operations on Tables loaded from irregular sheets
SpecLoad == InitLoad /\ [][NextSched]_vars

\* the word get_next_word returned is answered
AnswerSelected(is_correct) ==
    /\ last.op = "get_next_word"
    /\ last.ret # None
    /\ UpdateSrs(last.ret, is_correct, TRUE)

\* get_next_word under every configuration, on Tables that answers have changed
NextSelect ==
    \/ \E config \in Configs : SubmitSetup(config)
    \/ Tick
    \/ GetNextWord
    \/ \E is_correct \in BOOLEAN : AnswerSelected(is_correct)

SpecSelect == InitSched /\ [][NextSelect]_vars

\* sheets whose first item has a box below zero, beside an item missed today
SessionSheets ==
    { DataFrame(TextCols \cup SrsCols,
                <<SchedRow1 @@ p, SchedRow2 @@ Srs(I(0), I(1), S(DateStr(Day0)))>>) :
        p \in {Srs(I(-2), I(0), S(NeverReviewed)), Srs(I(-1), I(1), S(NeverReviewed)),
               Srs(NaN, NaN, NaN)} }

InitSession == \E sheet \in SessionSheets : Startup(sheet)

\* sessions of selecting and answering on these sheets
SpecSession == InitSession /\ [][NextSelect]_vars

\* the quiz screen loads a question: get_next_word, then
\* build_question_for_word on the selected row
LoadQuestion ==
    /\ app_mode = "quiz"
    /\ session_stats.total < session_config["goal"]
    /\ current_word_id = None
    /\ LET r == get_next_word(vocab_db, session_config, today)
       IN  \E new_id \in r.rets :
              IF new_id # None
              THEN LET current_word == vocab_db.rows[FirstIdx(IdxList(vocab_db, new_id))]
                   IN  \E q \in build_question_for_word(current_word, vocab_db) :
                          /\ current_word_id' = new_id
                          /\ question_type' = q.qtype
                          /\ quiz_options' = q.options
                          /\ correct_answers' = q.correct_set
                          /\ example_blank_to_show' = q.example_blank
                          /\ quiz_answered' = FALSE
                          /\ selected_option' = None
                          /\ last' = [op |-> "load_question", ret |-> new_id,
                                      toast |-> r.toast, pre |-> q.pre]
              ELSE /\ last' = [op |-> "no_words", ret |-> None, toast |-> r.toast]
                   /\ UNCHANGED quiz_vars
    /\ UNCHANGED <<srs_vars, clock_vars, qc_log, app_mode, session_config, session_stats>>

\* a slip: the target word always taken for the answer
IsCorrectFirstAnswer(option, answers) ==
    answers # {} /\ option = (CHOOSE a \in answers : TRUE)

\* is_correct = option in st.session_state.correct_answers
IsCorrect(option, answers) == option \in answers

\* a slip: the question left open after the answer
AnswerLeftOpen(option, save_ok) ==
    /\ app_mode = "quiz"
    /\ session_stats.total < session_config["goal"]
    /\ current_word_id # None
    /\ ~quiz_answered
    /\ option \in SeqToSet(quiz_options)
    /\ save_ok \/ save_failures < MaxSaveFailures
    /\ \A i \in IdxList(vocab_db, current_word_id) :
          IsCorrect(option, correct_answers)
             \/ vocab_db.rows[i]["mistake_count"].n < MaxMistakes
    /\ selected_option' = option
    /\ update_srs(current_word_id, IsCorrect(option, correct_answers), save_ok)
    /\ last' = [op |-> "answer", word_id |-> current_word_id,
                is_correct |-> IsCorrect(option, correct_answers), save_ok |-> save_ok,
                old |-> vocab_db.rows[FirstIdx(IdxList(vocab_db, current_word_id))]]
    /\ UNCHANGED <<clock_vars, qc_log, app_mode, session_config, current_word_id, question_type,
                   quiz_options, correct_answers, example_blank_to_show, quiz_answered>>

\* an option button of the quiz screen is pressed
Answer(option, save_ok) ==
    /\ app_mode = "quiz"
    /\ session_stats.total < session_config["goal"]
    /\ current_word_id # None
    /\ ~quiz_answered
    /\ option \in SeqToSet(quiz_options)
    /\ save_ok \/ save_failures < MaxSaveFailures
    /\ \A i \in IdxList(vocab_db, current_word_id) :
          IsCorrect(option, correct_answers)
             \/ vocab_db.rows[i]["mistake_count"].n < MaxMistakes
    /\ quiz_answered' = TRUE
    /\ selected_option' = option
    /\ update_srs(current_word_id, IsCorrect(option, correct_answers), save_ok)
    /\ last' = [op |-> "answer", word_id |-> current_word_id,
                is_correct |-> IsCorrect(option, correct_answers), save_ok |-> save_ok,
                old |-> vocab_db.rows[FirstIdx(IdxList(vocab_db, current_word_id))]]
    /\ UNCHANGED <<clock_vars, qc_log, app_mode, session_config, current_word_id, question_type,
                   quiz_options, correct_answers, example_blank_to_show>>

\* "Next Question" under an answered question
NextQuestion ==
    /\ app_mode = "quiz"
    /\ session_stats.total < session_config["goal"]
    /\ current_word_id # None
    /\ quiz_answered
    /\ current_word_id' = None
    /\ quiz_answered' = FALSE
    /\ selected_option' = None
    /\ correct_answers' = {}
    /\ question_type' = None
    /\ quiz_options' = <<>>
    /\ example_blank_to_show' = ""
    /\ last' = [op |-> "next_question"]
    /\ UNCHANGED <<srs_vars, clock_vars, qc_log, app_mode, session_config, session_stats>>

\* "Back to Setup" under "No words matching your criteria!"
BackToSetup ==
    /\ app_mode = "quiz"
    /\ last.op = "no_words"
    /\ app_mode' = "setup"
    /\ last' = [op |-> "back_to_setup"]
    /\ UNCHANGED <<srs_vars, clock_vars, qc_log, quiz_vars, session_config, session_stats>>

\* the sheet of the whole-application runs: two new words
AppSheets == { DataFrame(TextCols \cup SrsCols, <<SchedRow1 @@ NewSrs, SchedRow2 @@ NewSrs>>) }

Init == \E sheet \in AppSheets : Startup(sheet)

Next ==
    \/ \E config \in {StandardConfig,
                      [StandardConfig EXCEPT !["mode"] = "Review Mistakes Only"]} :
          SubmitSetup(config)
    \/ GoalReached
    \/ LoadQuestion
    \/ \E option \in SeqToSet(quiz_options), save_ok \in BOOLEAN : Answer(option, save_ok)
    \/ NextQuestion
    \/ BackToSetup
    \/ BackToHome
    \/ \E save_ok \in BOOLEAN : ResetAllProgress(save_ok)

Spec == Init /\ [][Next]_vars

\* a user who starts a session, answers what is shown and presses
\* "Next Question" under it
NextQuiz ==
    \/ SubmitSetup(StandardConfig)
    \/ GoalReached
    \/ LoadQuestion
    \/ \E option \in SeqToSet(quiz_options) : Answer(option, TRUE)
    \/ NextQuestion

\* each rerun of the script and each press the user goes on to make happens
SpecQuiz == Init /\ [][NextQuiz]_vars /\ WF_vars(NextQuiz)

\* parse_list on a list cell of a row of the Table
ParseCell(i, col) ==
    /\ i \in 1..Len(vocab_db.rows)
    /\ col \in vocab_db.cols
    /\ last' = [op |-> "parse_list", x |-> vocab_db.rows[i][col],
                ret |-> parse_list(vocab_db.rows[i][col])]
    /\ UNCHANGED <<srs_vars, clock_vars, qc_log, quiz_vars, app_mode, session_config, session_stats>>

\* what row.get(col, '') gives where the cell holds no text: the default,
\* a None, a number; and a value that is a list already
CodecInputs == {S(""), None, I(7), L(<<S("improve"), S("better")>>), L(<<>>),
                L(<<S("improve"), S(""), I(7)>>)}

\* parse_list on such a value
ParseValue(x) ==
    /\ last' = [op |-> "parse_list", x |-> x, ret |-> parse_list(x)]
    /\ UNCHANGED <<srs_vars, clock_vars, qc_log, quiz_vars, app_mode, session_config, session_stats>>

ListCols == {"synonyms", "confusables", "collocations"}

\* the seed row that keeps the headings of QC_Log in place
SeedRow == [ts |-> "__seed__"]

\* QC_Log after ensure_qc_sheet_and_header() returned True
ensure_qc_sheet_and_header(log) ==
    IF \E k \in 1..Len(log) : log[k].ts = "__seed__" THEN log ELSE <<SeedRow>> \o log

\* "Run QC Simulation". sheet_ok: the worksheet QC_Log can be read and
\* written. The loop takes the first sampled row, builds its question and
\* calls gemini_qc, a name the module does not define (its def is commented
\* out): NameError ends the script run before logs.append and append_qc_log.
RunQCSimulation(sheet_ok, use_gemini) ==
    /\ app_mode # "stopped"
    /\ IF ~sheet_ok
       THEN /\ last' = [op |-> "qc_simulation", sheet_ok |-> FALSE, use_gemini |-> use_gemini,
                        processed |-> 0, raised |-> "", logged |-> <<>>]
            /\ UNCHANGED qc_log
       ELSE /\ qc_log' = ensure_qc_sheet_and_header(qc_log)
            /\ \E i \in 1..Len(vocab_db.rows) :
                  \E q \in build_question_for_word(vocab_db.rows[i], vocab_db) :
                     last' = [op |-> "qc_simulation", sheet_ok |-> TRUE,
                              use_gemini |-> use_gemini, processed |-> 1,
                              word_id |-> vocab_db.rows[i]["id"], options |-> q.options,
                              raised |-> "NameError", logged |-> <<>>]
    /\ UNCHANGED <<srs_vars, clock_vars, quiz_vars, app_mode, session_config, session_stats>>

\* _fill_llm(row): an empty judge selection becomes the first option, an
\* empty verdict the str of its membership in the correct answers
fill_llm(row) ==
    LET selected == IF Strip(row.llm_selected) = ""
                    THEN (IF row.options # <<>> THEN row.options[1] ELSE "")
                    ELSE row.llm_selected
        verdict == IF Strip(row.llm_is_correct) = ""
                   THEN (IF selected \in row.correct_answers THEN "True" ELSE "False")
                   ELSE row.llm_is_correct
    IN  [row EXCEPT !.llm_selected = selected, !.llm_is_correct = verdict]

IsLogRow(r) == r.ts # "__seed__"

\* a slip: the seed row of the old log kept under the new one
append_qc_log_keeps_seed(log, rows) ==
    <<SeedRow>> \o ensure_qc_sheet_and_header(log) \o [k \in 1..Len(rows) |-> fill_llm(rows[k])]

\* QC_Log after append_qc_log(rows) ran to its conn.update: the seed row,
\* the old rows without their seed rows, the new rows filled
append_qc_log(log, rows) ==
    <<SeedRow>> \o SelectSeq(ensure_qc_sheet_and_header(log), IsLogRow)
                \o [k \in 1..Len(rows) |-> fill_llm(rows[k])]

\* a row of logs as the QC simulation builds it
QcRow(ts, llm_selected) ==
    [ts |-> ts, options |-> <<"improve", "mend", "Option A", "Option B">>,
     correct_answers |-> {"improve", "better"},
     llm_selected |-> llm_selected, llm_is_correct |-> IF llm_selected = "" THEN "" ELSE "False"]

\* the rows of two seconds, with and without a judge selection
QcRows == {QcRow(ts, sel) : ts \in {"2024-12-30 09:00:00", "2024-12-30 09:00:01"},
                            sel \in {"", "mend"}}

\* the lists append_qc_log is called with: none, one row, two rows
QcBatches ==
    {<<>>} \cup {<<r>> : r \in QcRows}
           \cup {<<QcRow("2024-12-30 09:00:00", "mend"), QcRow("2024-12-30 09:00:01", "")>>}

\* how a call ends: written; no worksheet; the last conn.update raised
QcOutcomes == {"written", "no_sheet", "update_failed"}

\* a call of append_qc_log(rows)
AppendQcLog(rows, outcome) ==
    /\ Len(qc_log) + Len(rows) <= MaxLogRows
    /\ qc_log' = IF rows = <<>> \/ outcome = "no_sheet" THEN qc_log
                 ELSE IF outcome = "update_failed" THEN ensure_qc_sheet_and_header(qc_log)
                 ELSE append_qc_log(qc_log, rows)
    /\ last' = [op |-> "append_qc_log", rows |-> rows, old |-> qc_log,
                written |-> rows # <<>> /\ outcome = "written"]
    /\ UNCHANGED <<srs_vars, clock_vars, quiz_vars, app_mode, session_config, session_stats>>

\* calls of append_qc_log, one after the other
NextLog == \E rows \in QcBatches, outcome \in QcOutcomes : AppendQcLog(rows, outcome)

SpecLog == Init /\ [][NextLog]_vars

\* the QC run from the setup and the quiz screen
NextQC ==
    \/ SubmitSetup(StandardConfig)
    \/ \E sheet_ok \in BOOLEAN, use_gemini \in BOOLEAN : RunQCSimulation(sheet_ok, use_gemini)

SpecQC == Init /\ [][NextQC]_vars

InitGen == \E sheet \in GenSheets : Startup(sheet)

\* parse_list on the list cells of the generator's sheets
NextCodec ==
    \/ \E i \in 1..Len(vocab_db.rows), col \in ListCols : ParseCell(i, col)
    \/ \E x \in CodecInputs : ParseValue(x)

SpecCodec == InitGen /\ [][NextCodec]_vars

\* the first question of a session, on sheets with sparse and malformed cells
NextGen ==
    \/ \E config \in {StandardConfig,
                      [StandardConfig EXCEPT !["mode"] = "Review Mistakes Only"]} :
          SubmitSetup(config)
    \/ LoadQuestion

SpecGen == InitGen /\ [][NextGen]_vars

----------------------------------------------------------------------------
(* Properties of the scheduler. *)

Rows == 1..Len(vocab_db.rows)
Box(i) == vocab_db.rows[i]["box"]
Mistakes(i) == vocab_db.rows[i]["mistake_count"]
NextReview(i) == vocab_db.rows[i]["next_review"].s

\* the row update_srs(word_id, ...) is about
RowOf(word_id) == CHOOSE i \in Rows : vocab_db.rows[i]["id"] = word_id

Updated == last.op = "update_srs" /\ last.old # None

\* the date a 'YYYY-MM-DD' str denotes
ParseDate(s) ==
    [y |-> (s[1] - 48) * 1000 + (s[2] - 48) * 100 + (s[3] - 48) * 10 + (s[4] - 48),
     m |-> (s[6] - 48) * 10 + (s[7] - 48),
     d |-> (s[9] - 48) * 10 + (s[10] - 48)]

\* date a is not later than date b
DateLE(a, b) ==
    \/ a.y < b.y
    \/ a.y = b.y /\ a.m < b.m
    \/ a.y = b.y /\ a.m = b.m /\ a.d <= b.d

\* C2: in every reachable state of the Table every item's box is an integer
\* in [0, 5]
C2_BoxInRange ==
    \A i \in Rows : Box(i).t = "int" /\ Box(i).n >= 0 /\ Box(i).n <= 5

\* C3: update_srs with a correct response sets the item's box to
\* min(old box + 1, 5), and with an incorrect response to 0, whatever the old
\* box was
C3_AdvanceBox ==
    Updated =>
        LET old == last.old["box"].n
            new == Box(RowOf(last.word_id))
        IN  /\ new.t = "int"
            /\ last.is_correct /\ old + 1 <= 5 => new.n = old + 1
            /\ last.is_correct /\ old + 1 > 5 => new.n = 5
            /\ ~last.is_correct => new.n = 0

\* a correct answer on an item already in the last box (or beyond it)
C3_Witness ==
    /\ Updated /\ last.is_correct
    /\ last.old["box"].n >= 5
    /\ Box(RowOf(last.word_id)).n = 5

\* C4: across update_srs calls no item's mistake_count decreases; the
\* answered item's count grows by exactly 1 on an incorrect response and is
\* unchanged by a correct one
C4_MistakesMonotone ==
    [][last'.op = "update_srs" =>
         /\ Len(vocab_db'.rows) = Len(vocab_db.rows)
         /\ \A i \in Rows :
               vocab_db'.rows[i]["mistake_count"].n =
                  Mistakes(i).n +
                  (IF /\ ~last'.is_correct
                      /\ last'.old # None
                      /\ vocab_db.rows[i]["id"] = last'.word_id
                   THEN 1 ELSE 0)]_vars

\* a second wrong answer on the same item
C4_Witness ==
    /\ Updated /\ ~last.is_correct
    /\ last.old["mistake_count"].n >= 1
    /\ Mistakes(RowOf(last.word_id)).n = last.old["mistake_count"].n + 1

InLevelRange(i, config) ==
    /\ vocab_db.rows[i]["level"].n >= config["difficulty"][1]
    /\ vocab_db.rows[i]["level"].n <= config["difficulty"][2]
OfTopic(i, config) == config["topic"] = "All" \/ vocab_db.rows[i]["topic"].s = config["topic"]
IsDue(i) ==
    \/ NextReview(i) = NeverReviewed
    \/ NextReview(i) # NeverReviewed /\ DateLE(ParseDate(NextReview(i)), today)
IsMistake(i) == Box(i).n = 0 /\ Mistakes(i).n > 0
ModeRule(i, config) ==
    IF config["mode"] = "Review Mistakes Only" THEN IsMistake(i) ELSE IsDue(i)
CandidateSet(config) ==
    {i \in Rows : InLevelRange(i, config) /\ OfTopic(i, config) /\ ModeRule(i, config)}

Selected == last.op = "get_next_word"

\* C6: get_next_word returns none exactly when the candidate set is empty,
\* and otherwise the id of an item of that set
C6_NextDue ==
    Selected =>
        /\ last.ret = None <=> CandidateSet(session_config) = {}
        /\ last.ret # None =>
              \E i \in CandidateSet(session_config) : vocab_db.rows[i]["id"] = last.ret

\* an id returned under a topic filter, from a Table with an item outside it
C6_Witness ==
    /\ Selected /\ last.ret # None
    /\ session_config["topic"] # "All"
    /\ CandidateSet(session_config) # {}
    /\ CandidateSet(session_config) # Rows

\* C9: in mistakes-only mode the candidates are exactly the filtered items
\* with box == 0 and mistake_count > 0 and get_next_word returns one of
\* them; when there is none it raises the advisory and returns none, even if
\* an item is due
C9_MistakesOnly ==
    Selected /\ session_config["mode"] = "Review Mistakes Only" =>
        LET mistakes == {i \in Rows : /\ InLevelRange(i, session_config)
                                      /\ OfTopic(i, session_config)
                                      /\ IsMistake(i)}
        IN  /\ Candidates(vocab_db, session_config, today) = mistakes
            /\ mistakes = {} => last.ret = None /\ last.toast
            /\ mistakes # {} =>
                  /\ ~last.toast
                  /\ \E i \in mistakes : vocab_db.rows[i]["id"] = last.ret

\* no mistake on record while an item of the filter is due: none, with the advisory
C9_Witness ==
    /\ Selected /\ session_config["mode"] = "Review Mistakes Only"
    /\ last.ret = None /\ last.toast
    /\ \E i \in Rows : InLevelRange(i, session_config) /\ OfTopic(i, session_config) /\ IsDue(i)

\* C10: in standard mode an item that passes the level and topic filters is
\* a candidate iff its next_review is the never-reviewed sentinel or a date
\* not later than today
C10_StandardDue ==
    app_mode = "quiz" /\ session_config["mode"] = "Standard Study (SRS)" =>
        \A i \in Rows :
            InLevelRange(i, session_config) /\ OfTopic(i, session_config) =>
                (i \in Candidates(vocab_db, session_config, today) <=> IsDue(i))

\* on new year's eve: a never-reviewed item and an item due that day are
\* candidates, or one of them is while the other is due only next year
C10_Witness ==
    /\ app_mode = "quiz" /\ session_config["mode"] = "Standard Study (SRS)"
    /\ session_config["topic"] = "All" /\ session_config["difficulty"] = <<1, 3>>
    /\ ticks = 1
    /\ \E i, j \in Rows :
          /\ NextReview(i) = DateStr(today) /\ i \in Candidates(vocab_db, session_config, today)
          /\ ParseDate(NextReview(j)).y = 2025
          /\ j \notin Candidates(vocab_db, session_config, today)

----------------------------------------------------------------------------
(* Properties of the question generator. *)

Loaded == last.op = "load_question"

\* the row the loaded question is about
TargetRow == vocab_db.rows[RowOf(current_word_id)]

Options == SeqToSet(quiz_options)

\* C1: the question build_question_for_word returns has exactly 4 options,
\* pairwise distinct, whatever the target and the pool
C1_FourDistinctOptions ==
    Loaded => Len(quiz_options) = 4 /\ Cardinality(Options) = 4

\* C7: some displayed option is a correct answer: the displayed correct
\* option (the first option before the shuffle) is in options and in
\* correct_answers
C7_CorrectDisplayed ==
    Loaded =>
        /\ Options \cap correct_answers # {}
        /\ last.pre[1] \in Options
        /\ last.pre[1] \in correct_answers

\* a synonym question whose target has two synonyms: one is displayed, both
\* are correct
C7_Witness ==
    /\ Loaded /\ question_type = "synonym"
    /\ Cardinality(correct_answers) = 2
    /\ Cardinality(Options \cap correct_answers) = 1

\* C8 as stated: a blank question has correct_answers = {target word}, the
\* word as the Table holds it, and that word among the options
C8_BlankAnswerIsWord ==
    Loaded /\ question_type = "blank" =>
        /\ correct_answers = {TargetRow["word"].s}
        /\ TargetRow["word"].s \in Options

\* C8: a blank question has correct_answers = {w} and w among its 4 options,
\* w being the target word without its leading and trailing whitespace
C8_BlankAnswerIsStrippedWord ==
    Loaded /\ question_type = "blank" =>
        /\ correct_answers = {Strip(TargetRow["word"].s)}
        /\ Strip(TargetRow["word"].s) \in Options
        /\ Len(quiz_options) = 4

\* a blank question on a word stored with a trailing blank
C8_Witness ==
    /\ Loaded /\ question_type = "blank"
    /\ TargetRow["word"].s # Strip(TargetRow["word"].s)
    /\ correct_answers = {Strip(TargetRow["word"].s)}


----------------------------------------------------------------------------
(* Properties of the session. *)

Answered == last.op = "answer"

Total == session_stats.total
Goal == session_config["goal"]

\* C11: every update_srs call of a session adds exactly 1 to total and
\* exactly 1 to correct on a correct response, to wrong otherwise, so that
\* total = correct + wrong in every state
C11_StatsCount ==
    /\ [](Total = session_stats.correct + session_stats.wrong)
    /\ [][last'.op = "answer" =>
            /\ Total' = Total + 1
            /\ IF last'.is_correct
               THEN /\ session_stats'.correct = session_stats.correct + 1
                    /\ session_stats'.wrong = session_stats.wrong
               ELSE /\ session_stats'.wrong = session_stats.wrong + 1
                    /\ session_stats'.correct = session_stats.correct]_vars

\* a wrong answer after a correct one
C11_Witness ==
    /\ Answered /\ ~last.is_correct
    /\ session_stats.correct >= 1
    /\ Total = session_stats.correct + session_stats.wrong

\* C12: once total has reached the goal in quiz mode nothing is selected or
\* graded before the summary screen; total never exceeds the goal and the
\* summary screen is shown only with total >= goal
C12_GoalEndsSession ==
    /\ [](app_mode \in {"quiz", "summary"} => Total <= Goal)
    /\ [](app_mode = "summary" => Total >= Goal)
    /\ [][app_mode = "quiz" /\ Total >= Goal =>
            last'.op \notin {"load_question", "no_words", "answer", "next_question"}]_vars

\* the summary screen right after the answer that met the goal
C12_Witness ==
    /\ app_mode = "summary" /\ last.op = "goal_reached"
    /\ Total = Goal
    /\ quiz_answered

\* C13: when the setup form is submitted and the app enters quiz mode the
\* counters correct, wrong and total are 0, whatever they were before
C13_SessionStartsAtZero ==
    last.op = "submit" => app_mode = "quiz" /\ session_stats = ZeroStats

\* a session started while the counters of an unfinished session stood
C13_Witness ==
    /\ last.op = "submit" /\ app_mode = "quiz"
    /\ last.old_stats.total >= 1 /\ last.old_stats.wrong >= 1
    /\ session_stats = ZeroStats

\* C14: the correctness passed to update_srs is true iff the chosen option
\* is in the correct_answers of the question presented
C14_Grading ==
    [][last'.op = "answer" =>
          /\ correct_answers' = correct_answers
          /\ quiz_options' = quiz_options
          /\ selected_option' \in SeqToSet(quiz_options)
          /\ last'.is_correct <=> selected_option' \in correct_answers
          /\ session_stats'.correct = session_stats.correct + 1
                <=> selected_option' \in correct_answers
          /\ vocab_db'.rows[RowOf(current_word_id)]["mistake_count"].n =
                Mistakes(RowOf(current_word_id)).n
                <=> selected_option' \in correct_answers]_vars

\* a synonym of the target that is not the first of its synonyms, graded correct
C14_Witness ==
    /\ Answered /\ last.is_correct
    /\ question_type = "synonym"
    /\ Cardinality(correct_answers) = 2
    /\ selected_option # (CHOOSE a \in correct_answers : TRUE)
    /\ selected_option \in correct_answers


\* C15: after an update_srs whose save succeeded the sheet holds the whole
\* Table, the changes of earlier updates whose save failed included
C15_SaveOverwrites ==
    Updated /\ last.save_ok => store = vocab_db

\* a save that carries the unsaved change of another row into the sheet
C15_Witness ==
    /\ Updated /\ last.save_ok
    /\ save_failures >= 1
    /\ last.unsaved \ {RowOf(last.word_id)} # {}
    /\ store = vocab_db

----------------------------------------------------------------------------
(* Properties of load_data. *)

RequiredCols ==
    {"id", "word", "definition", "example", "synonyms", "topic", "level", "box",
     "next_review", "pos", "mistake_count", "example_blank", "collocations", "confusables"}

HasTable == app_mode # "stopped"

\* C17: after load_data every required field exists on every item of the
\* Table, a column the sheet lacks being created with its default
C17_RequiredFields ==
    HasTable => RequiredCols \subseteq vocab_db.cols

\* the rows of the sheet as load_data reads them, under lower-case headings
Read == LowerColumns(last.sheet).rows

\* the first row of the sheet that holds the word w
FirstWith(w) ==
    CHOOSE k \in 1..Len(Read) :
        Read[k]["word"] = w /\ \A j \in 1..(k - 1) : Read[j]["word"] # w

\* C18: after load_data no two items share a word, the item kept for a
\* repeated word is its first occurrence in the sheet, and update_srs keeps
\* the words unique
C18_UniqueWords ==
    HasTable /\ "word" \in vocab_db.cols =>
        /\ \A i, j \in Rows : i # j => vocab_db.rows[i]["word"] # vocab_db.rows[j]["word"]
        /\ last.op = "startup" =>
              /\ {vocab_db.rows[i]["word"] : i \in Rows} =
                    {Read[k]["word"] : k \in 1..Len(Read)}
              /\ \A i \in Rows :
                    vocab_db.rows[i]["id"] = Read[FirstWith(vocab_db.rows[i]["word"])]["id"]

\* a sheet with repeated words, loaded: fewer items than rows
C18_Witness ==
    /\ HasTable /\ last.op = "startup" /\ "word" \in vocab_db.cols
    /\ Len(vocab_db.rows) = 2
    /\ Len(last.sheet.rows) > 2


----------------------------------------------------------------------------
(* Properties of the list codec. *)

Parsed == last.op = "parse_list"

\* a str that is empty or whitespace only
IsBlank(x) == x.t = "str" /\ Strip(x.s) = ""

\* a str that is not blank and that literal_eval rejects
IsNoLiteral(x) == x.t = "str" /\ Strip(x.s) # "" /\ ~LiteralEval(x.s).ok

\* C19: parse_list returns for every input; an empty, whitespace-only or
\* missing (neither str nor list) input gives the empty sequence, a non-empty
\* str that is no literal gives the one-element sequence holding that str
C19_ParseListTotal ==
    Parsed =>
        /\ DOMAIN last.ret = 1..Len(last.ret)
        /\ IsBlank(last.x) \/ last.x.t \notin {"str", "list"} => last.ret = <<>>
        /\ IsNoLiteral(last.x) => last.ret = <<last.x>>

\* a comma-separated cell, which is no literal, comes back whole
C19_Witness ==
    /\ Parsed
    /\ last.x = S("improve, better")
    /\ last.ret = <<S("improve, better")>>


----------------------------------------------------------------------------
(* Properties of the QC simulation. *)

\* the data rows of QC_Log
LogRows == SelectSeq(qc_log, LAMBDA r : r.ts # "__seed__")

\* C20: for every question the QC simulation processes, with the judge
\* disabled, unavailable, failing or answering outside the options, a row
\* is written to QC_Log whose judge selection is non-empty and one of the
\* question's options, and the run is not aborted
C20_JudgeSelectionLogged ==
    last.op = "qc_simulation" /\ last.sheet_ok =>
        /\ last.raised = ""
        /\ Len(last.logged) = last.processed
        /\ Len(LogRows) >= last.processed
        /\ \A k \in 1..Len(last.logged) :
              /\ last.logged[k].llm_selected # ""
              /\ last.logged[k].llm_selected \in SeqToSet(last.logged[k].options)


----------------------------------------------------------------------------
(* Properties of the session's questions. *)

\* C21: when the setup form starts a session nothing of an earlier session's
\* question is in the session state (no current item, options, correct set
\* or answered flag), so that the first question shown is the one
\* get_next_word selects under the new configuration
C21_FreshSession ==
    last.op = "submit" =>
        /\ current_word_id = None
        /\ quiz_options = <<>>
        /\ correct_answers = {}
        /\ ~quiz_answered


\* the options of the loaded question that grading takes for correct
CorrectShown == {k \in 1..Len(quiz_options) : quiz_options[k] \in correct_answers}

\* C22: in a synonym question none of the 3 wrong options is in
\* correct_answers, so exactly one displayed option is graded correct
C22_WrongOptionsWrong ==
    Loaded /\ question_type = "synonym" =>
        /\ \A k \in 2..Len(last.pre) : last.pre[k] \notin correct_answers
        /\ Cardinality(CorrectShown) = 1


\* the target's part of speech, topic and word as the generator reads them
TargetPos == Lower(Strip(StrOf(RowGet(TargetRow, "pos"))))
TargetTopic == Strip(StrOf(RowGet(TargetRow, "topic")))
TargetWord == Strip(StrOf(RowGet(TargetRow, "word")))

\* the wrong-answer set of the loaded synonym question
WrongSet ==
    WrongPool(vocab_db, SynonymCandidates(vocab_db, current_word_id.n, TargetPos),
              correct_answers)

\* the wrong options of the loaded synonym question, in the order built
WrongShown == SubSeq(last.pre, 2, Len(last.pre))

\* the placeholder labels that are not strings of the wrong-answer set
UnusedLabels == SelectSeq(Defaults, LAMBDA d : d \notin WrongSet)

\* C23: with fewer than 3 strings in the wrong-answer set the wrong options
\* are those strings followed by "Option A", "Option B", "Option C" in that
\* order, labels already used skipped, up to 3; with 3 or more strings the
\* wrong options are 3 strings of the set
C23_PlaceholderPadding ==
    Loaded /\ question_type = "synonym" =>
        LET n == Cardinality(WrongSet)
        IN  /\ Len(WrongShown) = 3
            /\ IF n >= 3
               THEN SeqToSet(WrongShown) \subseteq WrongSet /\ Cardinality(SeqToSet(WrongShown)) = 3
               ELSE /\ SeqToSet(SubSeq(WrongShown, 1, n)) = WrongSet
                    /\ SubSeq(WrongShown, n + 1, 3) = SubSeq(UnusedLabels, 1, 3 - n)


\* the options of the loaded blank question before filler: the word and its
\* confusables
Seeded == AppendNew(<<TargetWord>>, Confusables(TargetRow, TargetWord))

\* the options added after them, in the order built
FillShown == SubSeq(last.pre, Len(Seeded) + 1, Len(last.pre))

OtherRows == Others(vocab_db, current_word_id.n)

\* the other items narrowed to the target's topic when it has one and some
\* other item shares it, then to its part of speech in the same way
NarrowedPool ==
    LET same_topic == {i \in OtherRows : vocab_db.rows[i]["topic"] = S(TargetTopic)}
        by_topic == IF TargetTopic # "" /\ same_topic # {} THEN same_topic ELSE OtherRows
        same_pos == {i \in by_topic : PosNorm(vocab_db.rows[i]) = TargetPos}
    IN  IF TargetPos # "" /\ TargetPos # "nan" /\ same_pos # {} THEN same_pos ELSE by_topic

\* the words of that pool that are not options yet
FillerWords == Filler(vocab_db, NarrowedPool, TargetWord) \ SeqToSet(Seeded)

\* C24: the filler of a blank question is taken from the other items,
\* narrowed to the target's topic only when some other item shares it, so
\* that placeholders appear only when that pool runs out of words
C24_FillerFallback ==
    Loaded /\ question_type = "blank" =>
        Cardinality(SeqToSet(FillShown) \cap FillerWords) =
            Min(4 - Len(Seeded), Cardinality(FillerWords))


\* the non-empty synonym strings of row i
SynonymsOf(i) == SeqToSet(NonEmptyStrs(parse_list(RowGet(vocab_db.rows[i], "synonyms"))))

\* the other items that have the target's part of speech
SamePos == {i \in OtherRows : PosNorm(vocab_db.rows[i]) = TargetPos}

\* the items whose synonyms may serve as wrong options
WrongSources == IF TargetPos \notin {"", "nan"} /\ SamePos # {} THEN SamePos ELSE OtherRows

\* C25: the wrong options of a synonym question that are no placeholders are
\* synonyms of other items of the target's part of speech (trimmed, case
\* ignored) when some other item has it, and of all other items otherwise;
\* never of the target alone
C25_WrongOptionsByPos ==
    Loaded /\ question_type = "synonym" =>
        \A w \in SeqToSet(WrongShown) :
            \/ w \in UNION {SynonymsOf(i) : i \in WrongSources}
            \/ w \in SeqToSet(Defaults) /\ Cardinality(WrongSet) < 3

\* a target tagged 'Verb' among verbs and a noun: three synonyms of the verbs
C25_Witness ==
    /\ Loaded /\ question_type = "synonym"
    /\ TargetRow["pos"] = S("Verb")
    /\ SamePos # {} /\ SamePos # OtherRows
    /\ Cardinality(WrongSet) >= 3
    /\ SeqToSet(WrongShown) \subseteq UNION {SynonymsOf(i) : i \in SamePos}
    /\ UNION {SynonymsOf(i) : i \in OtherRows \ SamePos} # {}


\* the first occurrences of the elements of xs, in order
RECURSIVE FirstOccurrences(_)
FirstOccurrences(xs) ==
    IF xs = <<>> THEN <<>>
    ELSE LET rest == FirstOccurrences(SubSeq(xs, 1, Len(xs) - 1))
             x == xs[Len(xs)]
         IN  IF x \in SeqToSet(rest) THEN rest ELSE Append(rest, x)

\* the target's distinct usable confusables: the strings of its confusables
\* cell that are not blank and not the target word, in the order of the cell
UsableConfusables ==
    LET cell == parse_list(RowGet(TargetRow, "confusables"))
        Usable(c) == c.t = "str" /\ Strip(c.s) # "" /\ c.s # TargetWord
        kept == FirstOccurrences(SelectSeq(cell, Usable))
    IN  [i \in 1..Len(kept) |-> kept[i].s]

\* C26: the options of a blank question after the target word start with
\* the first min(3, k) of the target's k distinct usable confusables, in the
\* order of the cell, and all of them are displayed; a filler word or a
\* placeholder follows only when k < 3
C26_ConfusablesFirst ==
    Loaded /\ question_type = "blank" =>
        LET n == Min(3, Len(UsableConfusables))
        IN  /\ last.pre[1] = TargetWord
            /\ SubSeq(last.pre, 2, n + 1) = SubSeq(UsableConfusables, 1, n)
            /\ SeqToSet(SubSeq(UsableConfusables, 1, n)) \subseteq Options \ {TargetWord}
            /\ Len(quiz_options) = 4

\* four usable confusables around the word itself: the first three are shown
C26_Witness ==
    /\ Loaded /\ question_type = "blank"
    /\ UsableConfusables = <<"alleviate", "mitigate", "abate", "allay">>
    /\ last.pre = <<"ameliorate", "alleviate", "mitigate", "abate">>


\* the target's example_blank as the sheet holds it
StoredBlank == StrOf(RowGet(TargetRow, "example_blank"))

\* not empty after trimming, and not a null-like text
UsableBlank == Strip(StoredBlank) # "" /\ Lower(Strip(StoredBlank)) \notin {"nan", "none"}

NoSynonyms == SynonymsOf(RowOf(current_word_id)) = {}

\* the target's word as the sheet holds it
StoredWord == StrOf(RowGet(TargetRow, "word"))

\* C28 as stated: for a target without non-empty synonyms the generator
\* returns a blank question when the target has a usable stem, and otherwise
\* a synonym question with correct_answers = {target word} whose displayed
\* correct option is the target word
C28_SelfSynonym ==
    Loaded /\ NoSynonyms =>
        IF UsableBlank THEN question_type = "blank"
        ELSE /\ question_type = "synonym"
             /\ correct_answers = {StoredWord}
             /\ last.pre[1] = StoredWord /\ StoredWord \in Options

\* C28: for a target without non-empty synonyms the generator returns a
\* blank question when the target has a usable stem, and otherwise a synonym
\* question with correct_answers = {w} whose displayed correct option is w,
\* for w the target word without its leading and trailing whitespace
C28_SelfSynonymStripped ==
    Loaded /\ NoSynonyms =>
        IF UsableBlank THEN question_type = "blank"
        ELSE /\ question_type = "synonym"
             /\ correct_answers = {TargetWord}
             /\ last.pre[1] = TargetWord /\ TargetWord \in Options

\* the padded word 'alleviate ' without synonyms or stem asks for itself
C28_Witness ==
    /\ Loaded /\ NoSynonyms /\ ~UsableBlank
    /\ StoredWord = "alleviate " /\ question_type = "synonym"
    /\ correct_answers = {"alleviate"} /\ "alleviate" \in Options


----------------------------------------------------------------------------
(* Properties of parse_list on lists. *)

\* a string that is not empty
IsFilledStr(e) == e.t = "str" /\ e.s # ""

\* C29: parse_list on a value that is a list already returns its elements
\* that are non-empty strings, in their order, and nothing else
C29_SequenceFiltered ==
    last.op = "parse_list" /\ last.x.t = "list" =>
        last.ret = SelectSeq(last.x.v, IsFilledStr)

\* the text of last.x is a literal of a list
IsListLiteral ==
    /\ last.x.t = "str" /\ Strip(last.x.s) # ""
    /\ LiteralEval(last.x.s).ok /\ LiteralEval(last.x.s).v.t = "list"

\* C30: parse_list on a text that is a literal of a list returns the
\* elements of the list in order, each one a string: an element that is no
\* string is returned as its str()
C30_LiteralListStringified ==
    last.op = "parse_list" /\ IsListLiteral =>
        LET v == LiteralEval(last.x.s).v.v
        IN  /\ Len(last.ret) = Len(v)
            /\ \A k \in 1..Len(v) : last.ret[k] = S(StrOf(v[k]))


----------------------------------------------------------------------------
(* Properties of whole sessions. *)

\* a step that grades: a counter of the session or a scheduling cell moves
\* without the progress being reset
Graded ==
    \/ session_stats'.total > session_stats.total
    \/ vocab_db' # vocab_db /\ last'.op \notin {"reset", "startup"}

\* C31: a presented question is graded at most once. A grading step happens
\* on an open question and closes it; a closed question stays closed until it
\* is dismissed; and a question is presented only where none was
C31_GradedOnce ==
    [][ /\ Graded =>
              /\ current_word_id # None /\ current_word_id' = current_word_id
              /\ ~quiz_answered /\ quiz_answered'
              /\ session_stats'.total = session_stats.total + 1
        /\ quiz_answered /\ ~quiz_answered' => current_word_id' = None
        /\ current_word_id' # current_word_id =>
              current_word_id = None \/ current_word_id' = None ]_vars

\* an answered question carried into the next session: still closed
C31_Witness ==
    /\ last.op = "submit" /\ app_mode = "quiz"
    /\ current_word_id # None /\ quiz_answered
    /\ session_stats.total = 0
    /\ \E i \in Rows : Box(i).n + Mistakes(i).n > 0


\* the item just answered is a candidate where the session's mode is m
AnsweredIsCandidate(m) ==
    RowOf(last.word_id) \in CandidateSet([session_config EXCEPT !["mode"] = m])

\* C32: right after an answer, in the same session on the same day: an item
\* answered correctly is no candidate of get_next_word in the session's mode;
\* an item answered incorrectly is a candidate in both modes
C32_AnsweredToday ==
    Updated =>
        IF last.is_correct THEN ~AnsweredIsCandidate(session_config["mode"])
        ELSE \A m \in Modes : AnsweredIsCandidate(m)


\* the cells of the Table that a step changes, as <<row, column>>
ChangedCells ==
    {rc \in Rows \X vocab_db.cols : vocab_db'.rows[rc[1]][rc[2]] # vocab_db.rows[rc[1]][rc[2]]}

\* C33: update_srs(word_id, ...) changes no cell of the Table but the box,
\* next_review and mistake_count of the item with that id, keeps the rows and
\* the columns, and changes nothing when no item has the id
C33_UpdateFrame ==
    [][ last'.op = "update_srs" =>
          /\ Len(vocab_db'.rows) = Len(vocab_db.rows)
          /\ vocab_db'.cols = vocab_db.cols
          /\ \A rc \in ChangedCells :
                /\ vocab_db.rows[rc[1]]["id"] = last'.word_id
                /\ rc[2] \in {"box", "next_review", "mistake_count"}
          /\ (\A i \in Rows : vocab_db.rows[i]["id"] # last'.word_id) => vocab_db' = vocab_db
      ]_vars

\* a wrong answer on item 1 beside an untouched item 2: box, next_review and
\* mistake_count of item 1 moved, its other cells did not
C33_Witness ==
    /\ Updated /\ ~last.is_correct /\ last.word_id = I(1)
    /\ Len(vocab_db.rows) = 2
    /\ LET new == vocab_db.rows[RowOf(last.word_id)]
       IN  /\ new["mistake_count"] # last.old["mistake_count"]
           /\ new["next_review"] # last.old["next_review"]
           /\ new["box"] # last.old["box"]
           /\ \A c \in TextCols : new[c] = last.old[c]


\* C34: a session in which the user keeps answering and pressing
\* "Next Question" reaches the summary screen or finds no word left; it does
\* not present questions forever
C34_SessionEnds ==
    (app_mode = "quiz") ~> (app_mode = "summary" \/ last.op = "no_words")

\* the summary reached with the goal met, after right and wrong answers
C34_Witness ==
    /\ app_mode = "summary" /\ last.op = "goal_reached"
    /\ session_stats.total >= session_config["goal"]
    /\ session_stats.correct > 0 /\ session_stats.wrong > 0


\* the scheduling cells of a row after a reset
IsFresh(row) ==
    /\ row["box"] = I(0) /\ row["mistake_count"] = I(0)
    /\ row["next_review"] = S(NeverReviewed)

\* the rows passing the level and topic filters of a configuration
Filtered(config) == {i \in Rows : InLevelRange(i, config) /\ OfTopic(i, config)}

\* C35: after a successful "Reset All Progress" every item of the sheet and
\* of the reloaded Table has box 0, mistake_count 0 and next_review
\* '0000-00-00'; the session is at the setup screen with zero counters and no
\* question; under every configuration get_next_word's candidates are all
\* filtered items in standard mode and none in mistakes-only mode
C35_ResetFresh ==
    last.op = "reset" =>
        /\ \A i \in 1..Len(store.rows) : IsFresh(store.rows[i])
        /\ \A i \in Rows : IsFresh(vocab_db.rows[i])
        /\ Len(vocab_db.rows) > 0
        /\ app_mode = "setup" /\ session_stats = ZeroStats
        /\ current_word_id = None /\ ~quiz_answered
        /\ \A config \in Configs :
              Candidates(vocab_db, config, today) =
                  IF config["mode"] = "Review Mistakes Only" THEN {} ELSE Filtered(config)

\* a reset of a Table in which both items held progress
C35_Witness ==
    /\ last.op = "reset" /\ last.progress = {1, 2}
    /\ Len(vocab_db.rows) = 2 /\ \A i \in Rows : IsFresh(vocab_db.rows[i])
    /\ store = vocab_db


----------------------------------------------------------------------------
(* Properties of QC_Log. *)

\* the rows of a log that are no seed rows, in order
NonSeed(log) == SelectSeq(log, LAMBDA r : r.ts # "__seed__")

\* the places of the seed rows in QC_Log
SeedPlaces == {k \in 1..Len(qc_log) : qc_log[k].ts = "__seed__"}

\* C36: after a successful append_qc_log the rows of QC_Log that are no seed
\* rows are those it held before, unchanged and in their order, followed by
\* the new rows in theirs; QC_Log has one seed row and it is the first row
C36_AppendOnly ==
    last.op = "append_qc_log" /\ last.written =>
        LET before == NonSeed(last.old)
            after == NonSeed(qc_log)
        IN  /\ Len(after) = Len(before) + Len(last.rows)
            /\ SubSeq(after, 1, Len(before)) = before
            /\ \A k \in 1..Len(last.rows) :
                  /\ after[Len(before) + k].ts = last.rows[k].ts
                  /\ after[Len(before) + k].options = last.rows[k].options
            /\ SeedPlaces = {1}

\* two rows appended under a log that held a row already
C36_Witness ==
    /\ last.op = "append_qc_log" /\ last.written
    /\ Len(last.rows) = 2 /\ Len(NonSeed(last.old)) = 1
    /\ Len(qc_log) = 4 /\ SeedPlaces = {1}

====
